---- MODULE Spec2Model ----
(***************************************************************************)
(* The job collector of src/workers/mod.rs: a polling thread that fetches  *)
(* a batch of Waiting job records, claims the ones that should run,        *)
(* submits every fetched record to the worker pool and dead-letters the    *)
(* ones the pool refused; the completion callbacks of the pool run         *)
(* concurrently with the collector and update or delete the records.       *)
(***************************************************************************)
EXTENDS Integers, Sequences, FiniteSets, TLC

\* ---------------------------------------------------------------- constants

BATCH_SIZE == 10

\* Bounds of the model.
MaxJobs == 2        \* records in the store of the small configurations
MaxInflight == 1    \* executions of one record the pool holds at a time
Extra == 1          \* records beyond one full batch in the large configurations

\* ---------------------------------------------------------------- data

\* JobStatus, plus the marker of a row that has been removed from the table.
JobStatus == {"Waiting", "Running", "Dead"}
Deleted == "deleted"

\* worker.register_job::<TestJob>(): the kinds the worker knows.
Registered == {"test_job"}
Kinds == {"test_job", "unknown_kind"}

\* The serialized payload of a record: either undecodable for its kind, or
\* the encoding of a job value. A job value determines what its should_run
\* answers and how its perform ends.
PerformResults == {"Ok", "JobInnerError", "JobPanicked"}
JobValues == [json : {TRUE}, run : BOOLEAN, res : PerformResults]
Malformed == [json |-> FALSE, run |-> FALSE, res |-> "Ok"]
Payloads == {Malformed} \cup JobValues

\* ExecutionContract.panic
PanicBehaviors == {"Fail", "Retry"}

VARIABLES
    kind,              \* id -> kind of the record (never changes)
    data,              \* id -> payload of the record (never changes)
    status,            \* id -> JobStatus of the row, or Deleted
    initial,           \* id -> status the row had when the collector started
    contract,          \* panic behaviour of the registered kind
    pc,                \* collector -> position in the loop body
    top_of_queue,      \* collector -> the batch fetched by the current tick
    next_job,          \* collector -> index in top_of_queue of the submit loop
    failed_to_submit,  \* collector -> ids the pool refused in the current tick
    inflight,          \* id -> executions submitted and not yet completed
    started,           \* ids the pool has accepted at least once
    db_up              \* whether the operations on the store succeed

vars == <<kind, data, status, initial, contract, pc, top_of_queue, next_job,
          failed_to_submit, inflight, started, db_up>>

Ids == DOMAIN status
Collectors == DOMAIN pc

\* ---------------------------------------------------------------- helpers

Min(a, b) == IF a < b THEN a ELSE b

\* The elements of a set of ids in ascending order: the i-th is the one
\* with i - 1 smaller elements.
SortAsc(S) ==
    [i \in 1..Cardinality(S) |-> CHOOSE x \in S : Cardinality({y \in S : y < x}) = i - 1]

Range(s) == {s[i] : i \in 1..Len(s)}

\* ---------------------------------------------------------------- registry

\* serde decoding of a payload for a registered kind.
Decodes(d) == d.json

\* Worker::should_run(kind, data): Err(InvalidKind) for an unregistered kind,
\* Err(DeserializeError) for an undecodable payload, else Ok(job.should_run()).
WorkerShouldRun(k, d) ==
    IF k \notin Registered THEN "InvalidKind"
    ELSE IF ~Decodes(d) THEN "DeserializeError"
    ELSE IF d.run THEN "OkTrue" ELSE "OkFalse"

\* Worker::job_tick(kind, data, callback): the synchronous result.
JobTick(k) == IF k \in Registered THEN "Ok" ELSE "InvalidKind"

\* What the pool hands to the completion callback of an accepted job.
ExecutionResult(d) == IF ~Decodes(d) THEN "DeserializeError" ELSE d.res

\* ---------------------------------------------------------------- store

\* The fetch without its status filter: every row of the table is a candidate.
FetchAnyStatus(st) ==
    LET rows == SortAsc({id \in DOMAIN st : st[id] # Deleted})
    IN  SubSeq(rows, 1, Min(BATCH_SIZE, Len(rows)))

\* The fetch in descending order of id (order(id.desc())).
FetchDescending(st) ==
    LET waiting == SortAsc({id \in DOMAIN st : st[id] = "Waiting"})
        n == Len(waiting)
        k == Min(BATCH_SIZE, n)
    IN  [i \in 1..k |-> waiting[n + 1 - i]]

\* The fetch without its limit: every Waiting row is loaded.
FetchNoLimit(st) == SortAsc({id \in DOMAIN st : st[id] = "Waiting"})

\* jobs.filter(status.eq(Waiting)).limit(BATCH_SIZE).order(id.asc()).load()
FetchWaiting(st) ==
    LET waiting == SortAsc({id \in DOMAIN st : st[id] = "Waiting"})
    IN  SubSeq(waiting, 1, Min(BATCH_SIZE, Len(waiting)))

\* diesel::update(jobs).filter(id.eq_any(ids)).set(status.eq(new)): every
\* row that exists and whose id is listed, whatever its current status.
SetStatus(st, ids, new) ==
    [id \in DOMAIN st |-> IF id \in ids /\ st[id] # Deleted THEN new ELSE st[id]]

\* JobRecord::kill
Kill(st, id) == SetStatus(st, {id}, "Dead")

\* JobRecord::drop
Drop(st, id) == [st EXCEPT ![id] = Deleted]

\* ---------------------------------------------------------------- collector

\* The filter of the claim step: true iff some should_run call returns Err,
\* on which expect() panics and the collector thread ends.
FilterPanics(top) ==
    \E i \in 1..Len(top) :
        WorkerShouldRun(kind[top[i]], data[top[i]]) \in {"InvalidKind", "DeserializeError"}

\* The ids of the records the filter keeps.
ShouldRun(top) ==
    {top[i] : i \in {j \in 1..Len(top) : WorkerShouldRun(kind[top[j]], data[top[j]]) = "OkTrue"}}

\* The claim whose update is built but never executed.
ClaimNothing(st, top) == st

\* The claim that matches one id (id.eq) instead of the list (id.eq_any).
ClaimFirstOnly(st, top) ==
    LET ids == ShouldRun(top)
    IN  SetStatus(st, IF ids = {} THEN {} ELSE {CHOOSE x \in ids : \A y \in ids : x <= y}, "Running")

\* The bulk update of the claim step.
ClaimUpdate(st, top) == SetStatus(st, ShouldRun(top), "Running")

\* The sweep whose empty id list drops the filter, so that it matches every row.
SweepEmptyMatchesAll(st, failed) ==
    SetStatus(st, IF failed = <<>> THEN DOMAIN st ELSE Range(failed), "Dead")

\* The bulk update of the dead-letter sweep.
SweepUpdate(st, failed) == SetStatus(st, Range(failed), "Dead")

\* The callback whose JobInnerError arm puts the record back in the queue.
OnCompleteErrorRequeues(st, id, result, panic) ==
    CASE result = "JobInnerError" -> SetStatus(st, {id}, "Waiting")
      [] result = "JobPanicked" -> st
      [] result = "DeserializeError" -> Kill(st, id)
      [] result = "Ok" -> Drop(st, id)

\* The callback whose Ok arm kills the record instead of deleting it.
OnCompleteOkKills(st, id, result, panic) ==
    CASE result = "JobInnerError" -> st
      [] result = "JobPanicked" -> st
      [] result = "DeserializeError" -> Kill(st, id)
      [] result = "Ok" -> Kill(st, id)

\* The body of the completion callback: the store after it has run.
OnComplete(st, id, result, panic) ==
    CASE result = "JobInnerError" -> st
      [] result = "JobPanicked" -> (IF panic = "Fail" THEN st ELSE st)
      [] result = "DeserializeError" -> Kill(st, id)
      [] result = "Ok" -> Drop(st, id)

\* The collector after a store operation has failed, with the position moved
\* on to the sleep: the error is logged and the tick given up.
StoreErrorSkipsTick(c) == [pc EXCEPT ![c] = "sleep"]

\* The collector after a store operation has failed: expect() and unwrap()
\* panic, and the collector thread ends.
StoreErrorPc(c) == [pc EXCEPT ![c] = "crashed"]

\* The submit loop that also waits for the pool to finish the batch.
LoopDoneAndJoined(c) ==
    /\ next_job[c] > Len(top_of_queue[c])
    /\ \A id \in Range(top_of_queue[c]) : inflight[id] = 0

\* The for loop over top_of_queue has no record left.
LoopDone(c) == next_job[c] > Len(top_of_queue[c])

Fetch(c) ==
    /\ pc[c] = "fetch"
    /\ IF db_up
       THEN /\ top_of_queue' = [top_of_queue EXCEPT ![c] = FetchWaiting(status)]
            /\ pc' = [pc EXCEPT ![c] = "claim"]
       ELSE /\ pc' = StoreErrorPc(c)
            /\ UNCHANGED top_of_queue
    /\ UNCHANGED <<kind, data, status, initial, contract, next_job, failed_to_submit,
                   inflight, started, db_up>>

Claim(c) ==
    /\ pc[c] = "claim"
    /\ IF FilterPanics(top_of_queue[c])
       THEN /\ pc' = [pc EXCEPT ![c] = "crashed"]
            /\ UNCHANGED status
       ELSE IF db_up
       THEN /\ pc' = [pc EXCEPT ![c] = "submit"]
            /\ status' = ClaimUpdate(status, top_of_queue[c])
       ELSE /\ pc' = StoreErrorPc(c)
            /\ UNCHANGED status
    /\ next_job' = [next_job EXCEPT ![c] = 1]
    /\ failed_to_submit' = [failed_to_submit EXCEPT ![c] = <<>>]
    /\ UNCHANGED <<kind, data, initial, contract, top_of_queue, inflight, started, db_up>>

Submit(c) ==
    /\ pc[c] = "submit"
    /\ next_job[c] <= Len(top_of_queue[c])
    /\ LET id == top_of_queue[c][next_job[c]]
       IN  IF JobTick(kind[id]) = "Ok"
           THEN /\ inflight[id] < MaxInflight
                /\ inflight' = [inflight EXCEPT ![id] = @ + 1]
                /\ started' = started \cup {id}
                /\ UNCHANGED failed_to_submit
           ELSE /\ failed_to_submit' = [failed_to_submit EXCEPT ![c] = Append(@, id)]
                /\ UNCHANGED <<inflight, started>>
    /\ next_job' = [next_job EXCEPT ![c] = @ + 1]
    /\ UNCHANGED <<kind, data, status, initial, contract, pc, top_of_queue, db_up>>

Sweep(c) ==
    /\ pc[c] = "submit"
    /\ LoopDone(c)
    /\ IF db_up
       THEN /\ status' = SweepUpdate(status, failed_to_submit[c])
            /\ pc' = [pc EXCEPT ![c] = "sleep"]
       ELSE /\ pc' = StoreErrorPc(c)
            /\ UNCHANGED status
    /\ UNCHANGED <<kind, data, initial, contract, top_of_queue, next_job, failed_to_submit,
                   inflight, started, db_up>>

Sleep(c) ==
    /\ pc[c] = "sleep"
    /\ pc' = [pc EXCEPT ![c] = "fetch"]
    /\ UNCHANGED <<kind, data, status, initial, contract, top_of_queue, next_job,
                   failed_to_submit, inflight, started, db_up>>

\* Any step of the loop body of collector c.
CollectorStep(c) == Fetch(c) \/ Claim(c) \/ Submit(c) \/ Sweep(c) \/ Sleep(c)

\* ---------------------------------------------------------------- pool

Complete(id) ==
    /\ inflight[id] > 0
    /\ inflight' = [inflight EXCEPT ![id] = @ - 1]
    /\ status' = IF db_up
                 THEN OnComplete(status, id, ExecutionResult(data[id]), contract)
                 ELSE status
    /\ UNCHANGED <<kind, data, initial, contract, pc, top_of_queue, next_job,
                   failed_to_submit, started, db_up>>

\* ---------------------------------------------------------------- specification

\* The attributes of a record that is Waiting at the start: an unregistered
\* kind, or the registered kind with any payload.
WaitingRows == {<<"unknown_kind", Malformed>>} \cup ({"test_job"} \X Payloads)

\* A row of the table at the start: Waiting with any attributes, or left
\* Running or Dead by an earlier run.
Rows ==
    {<<r[1], r[2], "Waiting">> : r \in WaitingRows}
        \cup {<<"test_job", [json |-> TRUE, run |-> TRUE, res |-> "Ok"], s>> : s \in {"Running", "Dead"}}

InitStore(n, rows) ==
    \E t \in [1..n -> rows] :
        /\ kind = [id \in 1..n |-> t[id][1]]
        /\ data = [id \in 1..n |-> t[id][2]]
        /\ status = [id \in 1..n |-> t[id][3]]
        /\ initial = status
        /\ inflight = [id \in 1..n |-> 0]
        /\ started = {}
        /\ db_up = TRUE

InitCollectors(n) ==
    /\ pc = [c \in 1..n |-> "fetch"]
    /\ top_of_queue = [c \in 1..n |-> <<>>]
    /\ next_job = [c \in 1..n |-> 1]
    /\ failed_to_submit = [c \in 1..n |-> <<>>]

Init ==
    /\ \E n \in 1..MaxJobs : InitStore(n, Rows)
    /\ contract \in PanicBehaviors
    /\ InitCollectors(1)

Next ==
    \/ \E c \in Collectors : Fetch(c)
    \/ \E c \in Collectors : Claim(c)
    \/ \E c \in Collectors : Submit(c)
    \/ \E c \in Collectors : Sweep(c)
    \/ \E c \in Collectors : Sleep(c)
    \/ \E id \in Ids : Complete(id)

Spec == Init /\ [][Next]_vars

\* The large configurations: a store with a full batch of Waiting records or
\* more, all of the registered kind, decodable and eligible, with one way of
\* ending per store.
InitBatch ==
    /\ \E n \in BATCH_SIZE..(BATCH_SIZE + Extra) :
       \E r \in PerformResults :
           InitStore(n, {<<"test_job", [json |-> TRUE, run |-> TRUE, res |-> r], "Waiting">>})
    /\ contract \in PanicBehaviors
    /\ InitCollectors(1)

SpecBatch == InitBatch /\ [][Next]_vars

\* ---------------------------------------------------------------- store failures

\* The store stops answering: from now on pool.get(), load() and execute()
\* return Err.
StoreFails ==
    /\ db_up
    /\ db_up' = FALSE
    /\ UNCHANGED <<kind, data, status, initial, contract, pc, top_of_queue, next_job,
                   failed_to_submit, inflight, started>>

\* The store answers again.
StoreRecovers ==
    /\ ~db_up
    /\ db_up' = TRUE
    /\ UNCHANGED <<kind, data, status, initial, contract, pc, top_of_queue, next_job,
                   failed_to_submit, inflight, started>>

NextFail ==
    \/ Next
    \/ StoreFails
    \/ StoreRecovers

SpecFail == Init /\ [][NextFail]_vars

\* ---------------------------------------------------------------- two collectors

\* Two processes run init against the same jobs table.
InitTwo ==
    /\ \E n \in 1..MaxJobs : InitStore(n, Rows)
    /\ contract \in PanicBehaviors
    /\ InitCollectors(2)

SpecTwo == InitTwo /\ [][Next]_vars

\* ---------------------------------------------------------------- fairness

\* A store whose first records are Waiting, never eligible and never
\* succeed, followed by one eligible Waiting record: one record fewer than a
\* batch, or a full batch, in front of it.
InitLive ==
    /\ \E h \in (BATCH_SIZE - 1)..BATCH_SIZE :
          /\ kind = [id \in 1..(h + 1) |-> "test_job"]
          /\ data = [id \in 1..(h + 1) |->
                        IF id <= h THEN [json |-> TRUE, run |-> FALSE, res |-> "JobInnerError"]
                        ELSE [json |-> TRUE, run |-> TRUE, res |-> "Ok"]]
          /\ status = [id \in 1..(h + 1) |-> "Waiting"]
          /\ initial = status
          /\ inflight = [id \in 1..(h + 1) |-> 0]
    /\ started = {}
    /\ db_up = TRUE
    /\ contract \in PanicBehaviors
    /\ InitCollectors(1)

\* The collector thread keeps running its loop, and the pool keeps ending
\* the executions it has accepted and running their callbacks.
Fairness ==
    /\ WF_vars(CollectorStep(1))
    /\ WF_vars(\E id \in Ids : Complete(id))

SpecLive == InitLive /\ [][Next]_vars /\ Fairness

\* ---------------------------------------------------------------- properties

\* A step of collector c (fetch, claim, submit, sweep), as opposed to a
\* completion callback or the sleep.
TickStep(c) == pc[c] # "sleep" /\ (pc'[c] # pc[c] \/ next_job'[c] # next_job[c])

\* The step in which collector c fetches its batch.
FetchStep(c) == pc[c] = "fetch" /\ pc'[c] = "claim"

\* The step in which an execution of record id completes and its callback runs.
CompletionStep(id) == inflight'[id] < inflight[id]

ValidTransitions ==
    {<<"Waiting", "Running">>, <<"Running", "Dead">>, <<"Running", "Waiting">>,
     <<"Running", Deleted>>}

\* C1: every status change of a record is Waiting -> Running, Running -> Dead,
\* Running -> Waiting or Running -> deleted.
C1_OnlyValidTransitions ==
    [][\A id \in Ids :
          status'[id] # status[id] => <<status[id], status'[id]>> \in ValidTransitions]_vars

\* C2: a Dead record stays Dead, a deleted record stays deleted, and a record
\* is deleted only by the callback of an execution of it that ended Ok.
C2_DeadAndDeletedTerminal ==
    [][\A id \in Ids :
          /\ status[id] = "Dead" => status'[id] = "Dead"
          /\ status[id] = Deleted => status'[id] = Deleted
          /\ (status[id] # Deleted /\ status'[id] = Deleted)
                => (CompletionStep(id) /\ ExecutionResult(data[id]) = "Ok")]_vars

\* C2 witness: a tick has ended, a Dead record is still there and another
\* record has been deleted.
C2_Witness ==
    /\ pc[1] = "sleep"
    /\ \E id \in Ids : status[id] = "Dead"
    /\ \E id \in Ids : status[id] = Deleted

\* C3: once the tick that fetched it is over, a record of a registered kind
\* whose payload does not decode is Dead.
C3_MalformedIsDead ==
    \A c \in Collectors : \A id \in Range(top_of_queue[c]) :
        (pc[c] \in {"sleep", "crashed"} /\ kind[id] \in Registered /\ ~Decodes(data[id]))
            => status[id] = "Dead"

\* C4: once the tick that fetched it is over, a record of an unregistered
\* kind is Dead, and no execution of it was ever started.
C4_UnknownKindIsDead ==
    \A c \in Collectors : \A id \in Range(top_of_queue[c]) :
        (pc[c] \in {"sleep", "crashed"} /\ kind[id] \notin Registered)
            => (status[id] = "Dead" /\ inflight[id] = 0)

\* C5: the callback of an execution that ended Ok leaves the record deleted,
\* a deleted record stays deleted, and no fetch returns a deleted record.
C5_OkDeletes ==
    [][/\ \A id \in Ids :
             (CompletionStep(id) /\ ExecutionResult(data[id]) = "Ok") => status'[id] = Deleted
       /\ \A id \in Ids : status[id] = Deleted => status'[id] = Deleted
       /\ \A c \in Collectors :
             FetchStep(c) => \A id \in Range(top_of_queue'[c]) : status[id] # Deleted]_vars

\* C5 witness: a record has been executed and deleted, and a later tick has
\* fetched a batch of other records.
C5_Witness ==
    /\ pc[1] = "claim"
    /\ top_of_queue[1] # <<>>
    /\ \E id \in Ids :
          /\ status[id] = Deleted
          /\ inflight[id] = 0
          /\ id \notin Range(top_of_queue[1])

\* C6: after the callback of a panicked execution under the contract Fail,
\* the record is Dead.
C6_PanicFailIsDead ==
    [][\A id \in Ids :
          (CompletionStep(id) /\ ExecutionResult(data[id]) = "JobPanicked" /\ contract = "Fail")
              => status'[id] = "Dead"]_vars

\* C7: after the callback of a panicked execution under the contract Retry,
\* the record is Waiting again.
C7_PanicRetryIsWaiting ==
    [][\A id \in Ids :
          (CompletionStep(id) /\ ExecutionResult(data[id]) = "JobPanicked" /\ contract = "Retry")
              => status'[id] = "Waiting"]_vars

\* C8: every fetch returns at most BATCH_SIZE records, each of them Waiting
\* at the time of the fetch.
C8_BatchBounded ==
    [][\A c \in Collectors :
          FetchStep(c) =>
              /\ Len(top_of_queue'[c]) <= BATCH_SIZE
              /\ \A id \in Range(top_of_queue'[c]) : status[id] = "Waiting"]_vars

\* C8 witness: a batch of BATCH_SIZE records was fetched from a store that
\* holds more Waiting records than that.
C8_Witness ==
    /\ pc[1] = "claim"
    /\ Len(top_of_queue[1]) = BATCH_SIZE
    /\ Cardinality({id \in Ids : status[id] = "Waiting"}) > BATCH_SIZE

\* C9: no step of a tick whose fetch found no Waiting record changes the
\* status of a record or deletes one.
C9_EmptyTickNoOp ==
    [][\A c \in Collectors :
          (TickStep(c) /\ top_of_queue'[c] = <<>>) => status' = status]_vars

\* C9 witness: a tick with an empty batch has ended in a store that holds a
\* Running and a Dead record.
C9_Witness ==
    /\ pc[1] = "sleep"
    /\ top_of_queue[1] = <<>>
    /\ \E id \in Ids : status[id] = "Running"
    /\ \E id \in Ids : status[id] = "Dead"

\* The records that were Waiting when the collector started.
WaitingAtStart == {id \in Ids : initial[id] = "Waiting"}

\* A record of the registered kind with a payload that decodes, is eligible
\* and whose perform succeeds.
Good(id) ==
    /\ kind[id] \in Registered
    /\ Decodes(data[id])
    /\ data[id].run
    /\ data[id].res = "Ok"

SubmitStep(c) == pc[c] = "submit" /\ next_job'[c] = next_job[c] + 1

\* The step in which collector c runs its filter and its claim update.
ClaimStep(c) == pc[c] = "claim" /\ pc'[c] # "claim"

\* Whether should_run answers true or false for the record, not an error.
Answers(id) == WorkerShouldRun(kind[id], data[id]) \in {"OkTrue", "OkFalse"}

\* Whether collector c has been through record id in its submit loop.
Submitted(c, id) == \E i \in 1..Len(top_of_queue[c]) : top_of_queue[c][i] = id /\ i < next_job[c]

\* C11: no fetch returns a record that has an execution in flight, and every
\* record handed to the pool is Running at that time.
C11_NoRefetchInFlight ==
    [][\A c \in Collectors :
          /\ FetchStep(c) => \A id \in Range(top_of_queue'[c]) : inflight[id] = 0
          /\ SubmitStep(c) => status[top_of_queue[c][next_job[c]]] = "Running"]_vars

\* C12: a fetch changes no status, and the claim step of a collector sets
\* every eligible record of its batch that still exists to Running, whatever
\* its status is by then and whichever other collector has fetched it.
C12_ClaimHasNoStatusGuard ==
    [][\A c \in Collectors :
          /\ FetchStep(c) => status' = status
          /\ (ClaimStep(c) /\ pc'[c] = "submit") =>
                \A id \in Range(top_of_queue[c]) :
                    (data[id].run /\ status[id] # Deleted) => status'[id] = "Running"]_vars

\* C12 witness: both collectors fetched the same eligible record, both ran
\* their claim step and both handed the record to the pool.
C12_DoubleClaim ==
    \E id \in Ids :
        /\ data[id].run
        /\ kind[id] \in Registered
        /\ \A c \in {1, 2} :
              /\ c \in Collectors
              /\ pc[c] \in {"submit", "sleep"}
              /\ Submitted(c, id)

\* C13: a collector that has not panicked can always take its next step,
\* whatever is in flight; in the model the one exception is a submit held
\* back by the bound on the executions of one record.
C13_CollectorNeverWaits ==
    \A c \in Collectors :
        pc[c] # "crashed" =>
            \/ ENABLED CollectorStep(c)
            \/ /\ pc[c] = "submit"
               /\ next_job[c] <= Len(top_of_queue[c])
               /\ inflight[top_of_queue[c][next_job[c]]] >= MaxInflight

\* C13 witness: a tick that did not fetch a record has run to its end while
\* an execution of that record, submitted by an earlier tick, is in flight.
C13_Witness ==
    /\ pc[1] = "sleep"
    /\ \E id \in Ids : inflight[id] > 0 /\ id \notin Range(top_of_queue[1])

\* C14: when every record is of a registered kind, whatever the payloads
\* and the outcomes of the executions (Ok, error, panic, decode failure), the
\* collector is never stopped.
C14_CollectorSurvives ==
    (\A id \in Ids : kind[id] \in Registered) => \A c \in Collectors : pc[c] # "crashed"

C16_AllFetchedSubmitted ==
    [][\A c \in Collectors :
          /\ (pc[c] \in {"claim", "submit"} /\ pc'[c] \in {"sleep", "crashed"}) =>
                \A i \in 1..Len(top_of_queue[c]) :
                    Answers(top_of_queue[c][i]) => i < next_job'[c]
          /\ ClaimStep(c) =>
                \A id \in Ids : status'[id] # status[id] => (data[id].run /\ status'[id] = "Running")
          /\ SubmitStep(c) =>
                LET id == top_of_queue[c][next_job[c]]
                IN  (Answers(id) /\ ~data[id].run) => status[id] = "Waiting"]_vars

\* C17: a fetch returns the Waiting records with the smallest ids, as many
\* as there are up to BATCH_SIZE, in ascending order of id, and the submit
\* loop goes through them in that order.
C17_BatchIsLowestIdsAscending ==
    [][\A c \in Collectors :
          /\ FetchStep(c) =>
                LET top == top_of_queue'[c]
                    waiting == {id \in Ids : status[id] = "Waiting"}
                IN  /\ Len(top) = Min(BATCH_SIZE, Cardinality(waiting))
                    /\ Range(top) \subseteq waiting
                    /\ \A i, j \in 1..Len(top) : i < j => top[i] < top[j]
                    /\ \A id \in waiting \ Range(top) : \A i \in 1..Len(top) : top[i] < id
          /\ SubmitStep(c) =>
                LET id == top_of_queue[c][next_job[c]]
                IN  /\ started' = started \cup {id}
                    /\ inflight'[id] = inflight[id] + 1
                    /\ \A i \in 1..Len(top_of_queue[c]) :
                          (i < next_job[c]) <=> (top_of_queue[c][i] < id)]_vars

\* C17 witness: a batch of BATCH_SIZE records was fetched from more Waiting
\* records than that, and the submit loop is half way through it.
C17_Witness ==
    /\ pc[1] = "submit"
    /\ Len(top_of_queue[1]) = BATCH_SIZE
    /\ next_job[1] = 5
    /\ Cardinality(Ids) > BATCH_SIZE
    /\ \E id \in Ids : status[id] = "Waiting"

\* C18: a store operation of the collector that fails ends the collector
\* without a change to the store; a collector that has ended stays ended
\* whether or not the store recovers; and once it has ended the only changes
\* of status are those of callbacks of executions still in flight, so that a
\* Running record with nothing in flight stays Running.
C18_StoreFailureStopsCollector ==
    [][\A c \in Collectors :
          /\ (~db_up /\ pc'[c] # pc[c] /\ pc[c] # "sleep") =>
                (pc'[c] = "crashed" /\ status' = status)
          /\ pc[c] = "crashed" =>
                /\ pc'[c] = "crashed"
                /\ top_of_queue'[c] = top_of_queue[c]
                /\ \A id \in Ids : status'[id] # status[id] => CompletionStep(id)
                /\ \A id \in Ids :
                      (status[id] = "Running" /\ inflight[id] = 0) => status'[id] = "Running"]_vars

\* C18 witness: the claim update failed, the store has recovered, the
\* collector has ended and the record it fetched is still Waiting.
C18_Witness ==
    /\ pc[1] = "crashed"
    /\ db_up
    /\ top_of_queue[1] # <<>>
    /\ ~FilterPanics(top_of_queue[1])
    /\ \E id \in Range(top_of_queue[1]) : data[id].run /\ status[id] = "Waiting"

\* C19: no record is handed to the pool a second time.
C19_StartedAtMostOnce ==
    [][\A c \in Collectors :
          SubmitStep(c) =>
              LET id == top_of_queue[c][next_job[c]]
              IN  inflight'[id] > inflight[id] => id \notin started]_vars

\* C20: if the collector keeps running and every execution ends, then every
\* eligible record is eventually fetched and claimed, so that eventually no
\* eligible record is Waiting, however many Waiting records are in front.
C20_NoStarvation == <>(\A id \in Ids : data[id].run => status[id] # "Waiting")

====
